---- MODULE Spec2Model ----
(***************************************************************************)
(* Model of the three GLORYS extraction scripts                             *)
(*   get_glorys_forecast_physics_daily.py                                  *)
(*   get_glorys_forecast_biogeochem_monthly.py                             *)
(*   get_glorys_reanalysis_daily.py                                        *)
(* Each script builds a list of time windows, fills a request dictionary,  *)
(* calls the download client with bounded retry and logs one line per      *)
(* window.  Strings are modelled as sequences of one-character (or literal *)
(* chunk) strings so that formatting and parsing are real conversions.     *)
(***************************************************************************)
EXTENDS Integers, Sequences, FiniteSets, TLC

\* ------------------------------------------------------------------------
\* Bounds of the model and constants of the program

\* largest number_of_days / number_of_months explored
MaxN == 2

\* get_extraction: while (counter <= 10) and (got_file == False)
MaxAttempts == 10

\* ------------------------------------------------------------------------
\* Text: digits, zero-padded fields, str(int), strftime, fromisoformat

Digits == <<"0", "1", "2", "3", "4", "5", "6", "7", "8", "9">>

DigitStr(n) == Digits[n + 1]

DigitVal(c) == CHOOSE n \in 0..9 : Digits[n + 1] = c

\* %m, %d: two digits, zero padded
Pad2(n) == <<DigitStr((n \div 10) % 10), DigitStr(n % 10)>>

\* %Y: four digits for the years 1000..9999
Pad4(n) ==
    <<DigitStr((n \div 1000) % 10), DigitStr((n \div 100) % 10),
      DigitStr((n \div 10) % 10), DigitStr(n % 10)>>

RECURSIVE IntStrOf(_)
IntStrOf(n) ==
    IF n < 10 THEN <<DigitStr(n)>> ELSE IntStrOf(n \div 10) \o <<DigitStr(n % 10)>>

\* str(n) for n >= 0: decimal digits, no padding
\* (the number is bound to its value once)
IntStr(n) == CHOOSE r \in {IntStrOf(x) : x \in {n}} : TRUE

\* what strftime writes for one item of a format: a directive is replaced,
\* any other text is copied
StrftimeItem(dt, h) ==
    IF h = "%Y" THEN Pad4(dt.year)
    ELSE IF h = "%m" THEN Pad2(dt.month)
    ELSE IF h = "%d" THEN Pad2(dt.day)
    ELSE <<h>>

RECURSIVE StrftimeFrom(_, _, _)
StrftimeFrom(dt, fmt, k) ==
    IF k > Len(fmt) THEN <<>>
    ELSE StrftimeItem(dt, fmt[k]) \o StrftimeFrom(dt, fmt, k + 1)

\* dt.strftime(fmt): fmt is a sequence of directives (%Y, %m, %d) and literals
\* (the arguments are bound to their values once)
Strftime(dt, fmt) ==
    CHOOSE r \in {StrftimeFrom(d, x, 1) : d \in {dt}, x \in {fmt}} : TRUE

RECURSIVE DigitsValTo(_, _, _)
DigitsValTo(s, a, b) ==
    IF a > b THEN 0 ELSE DigitsValTo(s, a, b - 1) * 10 + DigitVal(s[b])

\* int(s[a..b]): value of the decimal digits s[a], ..., s[b]
\* (the string is bound to its value once)
DigitsVal(s, a, b) ==
    CHOOSE r \in {DigitsValTo(x, a, b) : x \in {s}} : TRUE

\* datetime.fromisoformat('YYYY-MM-DD HH:MM:SS')
Fromisoformat(s) ==
    [year   |-> DigitsVal(s, 1, 4),   month  |-> DigitsVal(s, 6, 7),
     day    |-> DigitsVal(s, 9, 10),  hour   |-> DigitsVal(s, 12, 13),
     minute |-> DigitsVal(s, 15, 16), second |-> DigitsVal(s, 18, 19)]

\* ------------------------------------------------------------------------
\* Calendar arithmetic of datetime, timedelta, relativedelta and calendar

\* calendar.isleap / datetime._is_leap
isleap(year) == year % 4 = 0 /\ (year % 100 # 0 \/ year % 400 = 0)

mdays == <<31, 28, 31, 30, 31, 30, 31, 31, 30, 31, 30, 31>>

\* mutant: February always has 28 days
monthrangeNoLeap(year, month) == mdays[month]

\* calendar.monthrange(year, month)[1]
monthrange(year, month) ==
    mdays[month] + (IF month = 2 /\ isleap(year) THEN 1 ELSE 0)

\* datetime._days_before_year
DaysBeforeYear(year) ==
    LET y == year - 1 IN y * 365 + (y \div 4) - (y \div 100) + (y \div 400)

\* datetime._DAYS_BEFORE_MONTH
DAYS_BEFORE_MONTH == <<0, 31, 59, 90, 120, 151, 181, 212, 243, 273, 304, 334>>

\* datetime._days_before_month
DaysBeforeMonth(year, month) ==
    DAYS_BEFORE_MONTH[month] + (IF month > 2 /\ isleap(year) THEN 1 ELSE 0)

\* datetime._ymd2ord: 0001-01-01 is day 1
Ymd2ord(year, month, day) ==
    DaysBeforeYear(year) + DaysBeforeMonth(year, month) + day

\* datetime._ord2ymd: the 400/100/4/1-year cycle decomposition
Ord2ymd(ordinal) ==
    LET n0   == ordinal - 1
        n400 == n0 \div 146097
        r400 == n0 % 146097
        n100 == r400 \div 36524
        r100 == r400 % 36524
        n4   == r100 \div 1461
        r4   == r100 % 1461
        n1   == r4 \div 365
        n    == r4 % 365
        year == n400 * 400 + 1 + n100 * 100 + n4 * 4 + n1
    IN  IF n1 = 4 \/ n100 = 4
        THEN [year |-> year - 1, month |-> 12, day |-> 31]
        ELSE LET leapyear == n1 = 3 /\ (n4 # 24 \/ n100 = 3)
                 before(m) == DAYS_BEFORE_MONTH[m] +
                              (IF m > 2 /\ leapyear THEN 1 ELSE 0)
                 guess    == (n + 50) \div 32
                 month    == IF before(guess) > n THEN guess - 1 ELSE guess
             IN  [year |-> year, month |-> month, day |-> n - before(month) + 1]

\* mutant: the argument taken as days, as in timedelta(24*x)
TimedeltaHoursAsDays(h) == [days |-> h, seconds |-> 0]

\* timedelta(hours=h): normalised to whole days and remaining seconds
TimedeltaHours(h) ==
    [days |-> (h * 3600) \div 86400, seconds |-> (h * 3600) % 86400]

\* datetime.__add__(timedelta)
AddTimedelta(dt, td) ==
    LET secs == dt.hour * 3600 + dt.minute * 60 + dt.second + td.seconds
        days == Ymd2ord(dt.year, dt.month, dt.day) + td.days + (secs \div 86400)
        rem  == secs % 86400
        ymd  == Ord2ymd(days)
    IN  [year   |-> ymd.year, month |-> ymd.month, day |-> ymd.day,
         hour   |-> rem \div 3600, minute |-> (rem % 3600) \div 60,
         second |-> rem % 60]

\* datetime + relativedelta(months=x): x months are normalised to years and
\* months, the month wraps into the next year, the day is clipped to the
\* length of the target month
AddRelativedeltaMonths(dt, x) ==
    LET years  == x \div 12
        months == x % 12
        y0     == dt.year + years
        m0     == dt.month + months
        year   == IF m0 > 12 THEN y0 + 1 ELSE y0
        month  == IF m0 > 12 THEN m0 - 12 ELSE m0
        last   == monthrange(year, month)
        day    == IF dt.day < last THEN dt.day ELSE last
    IN  [year |-> year, month |-> month, day |-> day,
         hour |-> dt.hour, minute |-> dt.minute, second |-> dt.second]

\* repr(float(n)) of a whole number, e.g. float(53) -> 53.0
Float(n) ==
    (IF n < 0 THEN <<"-">> \o IntStr(0 - n) ELSE IntStr(n)) \o <<".", "0">>

\* ------------------------------------------------------------------------
\* User input section of the three scripts

Variants ==
    {"forecast_physics_daily", "forecast_biogeochem_monthly", "reanalysis_daily"}

\* spatial limits and depth range (the same in the three scripts)
north == 53
south == 39
west == -131
east == -122
dep_min == 0
dep_max == 5728

\* var_list values explored for each script; "bottomT" is a variable the
\* forecast-physics script does not recognise
VarLists(v) ==
    IF v = "forecast_physics_daily"
    THEN {<<"so">>, <<"thetao">>, <<"uo", "vo">>, <<"vo", "uo">>, <<"zos">>,
          <<"bottomT">>}
    ELSE IF v = "forecast_biogeochem_monthly"
    THEN {<<"dissic", "talk", "si", "po4", "ph", "spco2", "o2", "no3", "fe",
            "phyc", "chl", "nppv">>, <<"chl">>}
    ELSE {<<"so", "thetao", "uo", "vo", "zos">>, <<"so">>}

\* an ISO formatted date_start string
Iso(y, m, d, H, M, S) ==
    Pad4(y) \o <<"-">> \o Pad2(m) \o <<"-">> \o Pad2(d) \o <<" ">> \o
    Pad2(H) \o <<":">> \o Pad2(M) \o <<":">> \o Pad2(S)

\* date_start values explored: leap day, end of year (not at midnight),
\* the documented default, a century year that is no leap year, a 30-day month
DateStarts ==
    {Iso(2020, 2, 28, 0, 0, 0), Iso(2021, 12, 31, 18, 30, 0),
     Iso(2022, 1, 1, 0, 0, 0), Iso(2100, 2, 28, 0, 0, 0),
     Iso(2022, 4, 30, 0, 0, 0)}

OUTPUT_DIRECTORY(v) ==
    IF v = "forecast_physics_daily" THEN "/mnt/c/data/glorys/forecast_daily/"
    ELSE IF v = "forecast_biogeochem_monthly" THEN "/mnt/c/data/glorys/forecast_monthly/"
    ELSE "/mnt/c/data/glorys/daily/"

\* ------------------------------------------------------------------------
\* Window list, request template, product selection, names and log text

\* dt_list = [base + timedelta(hours=24*x) for x in range(ndt)]          (daily)
\* dt_list = [base + relativedelta(months = x) for x in range(ndt)]      (monthly)
MakeDtList(v, base, n) ==
    [k \in 1..n |->
        IF v = "forecast_biogeochem_monthly"
        THEN AddRelativedeltaMonths(base, k - 1)
        ELSE AddTimedelta(base, TimedeltaHours(24 * (k - 1)))]

Blank == <<" ">>

\* mutant: the currents branch tests only 'uo'
SelectProductIdUoOnly(v0, current) ==
    IF v0 = "so" THEN <<"cmems_mod_glo_phy-so_anfc_0.083deg_P1D-m">>
    ELSE IF v0 = "thetao" THEN <<"cmems_mod_glo_phy-thetao_anfc_0.083deg_P1D-m">>
    ELSE IF v0 = "uo" THEN <<"cmems_mod_glo_phy-cur_anfc_0.083deg_P1D-m">>
    ELSE IF v0 = "zos" THEN <<"cmems_mod_glo_phy_anfc_0.083deg_P1D-m">>
    ELSE current

\* the if/elif chain choosing product_id from var_list[0]; no else branch
SelectProductId(v0, current) ==
    IF v0 = "so" THEN <<"cmems_mod_glo_phy-so_anfc_0.083deg_P1D-m">>
    ELSE IF v0 = "thetao" THEN <<"cmems_mod_glo_phy-thetao_anfc_0.083deg_P1D-m">>
    ELSE IF v0 = "uo" \/ v0 = "vo" THEN <<"cmems_mod_glo_phy-cur_anfc_0.083deg_P1D-m">>
    ELSE IF v0 = "zos" THEN <<"cmems_mod_glo_phy_anfc_0.083deg_P1D-m">>
    ELSE current

\* data_request_options_dict_manual as built before the loop
Template(v, vars, user, pwd) ==
    [service_id |->
        IF v = "forecast_physics_daily" THEN "GLOBAL_ANALYSISFORECAST_PHY_001_024-TDS"
        ELSE IF v = "forecast_biogeochem_monthly" THEN "GLOBAL_ANALYSIS_FORECAST_BIO_001_028-TDS"
        ELSE "GLOBAL_MULTIYEAR_PHY_001_030-TDS",
     product_id |->
        IF v = "forecast_physics_daily" THEN Blank
        ELSE IF v = "forecast_biogeochem_monthly"
        THEN <<"global-analysis-forecast-bio-001-028-monthly">>
        ELSE <<"cmems_mod_glo_phy_my_0.083_P1D-m">>,
     date_min |-> Blank,
     date_max |-> Blank,
     longitude_min |-> Float(west),
     longitude_max |-> Float(east),
     latitude_min |-> Float(south),
     latitude_max |-> Float(north),
     depth_min |-> IF v = "reanalysis_daily" THEN <<"0.49402499198913574">>
                   ELSE Float(dep_min),
     depth_max |-> IF v = "reanalysis_daily" THEN <<"5727.9169921875">>
                   ELSE Float(dep_max),
     variable |-> vars,
     motu |-> IF v = "reanalysis_daily" THEN "https://my.cmems-du.eu/motu-web/Motu"
              ELSE "https://nrt.cmems-du.eu/motu-web/Motu",
     out_dir |-> OUTPUT_DIRECTORY(v),
     out_name |-> Blank,
     auth_mode |-> "cas",
     user |-> user,
     pwd |-> pwd]

\* value of a name that was never assigned
Unbound == <<>>

\* mutant: the daily names leave out the day of the month
OutFnNoDay(v, v0, dt, current) ==
    IF v = "forecast_physics_daily"
    THEN IF v0 = "so"
         THEN Strftime(dt, <<"glorys_so_", "%Y", "_", "%m">>) \o <<".nc">>
         ELSE IF v0 = "thetao"
         THEN Strftime(dt, <<"glorys_thetao_", "%Y", "_", "%m">>) \o <<".nc">>
         ELSE IF v0 = "uo" \/ v0 = "vo"
         THEN Strftime(dt, <<"glorys_uovo_", "%Y", "_", "%m">>) \o <<".nc">>
         ELSE IF v0 = "zos"
         THEN Strftime(dt, <<"glorys_zos_", "%Y", "_", "%m">>) \o <<".nc">>
         ELSE current
    ELSE IF v = "forecast_biogeochem_monthly"
    THEN Strftime(dt, <<"glorys_biogeochem_", "%Y", "_", "%m">>) \o <<".nc">>
    ELSE Strftime(dt, <<"glorys_", "%Y", "_", "%m">>) \o <<".nc">>

\* mutant: the forecast-physics chain ends in an else branch with a default name
OutFnWithElse(v, v0, dt, current) ==
    IF v = "forecast_physics_daily"
    THEN IF v0 = "so"
         THEN Strftime(dt, <<"glorys_so_", "%Y", "_", "%m", "_", "%d">>) \o <<".nc">>
         ELSE IF v0 = "thetao"
         THEN Strftime(dt, <<"glorys_thetao_", "%Y", "_", "%m", "_", "%d">>) \o <<".nc">>
         ELSE IF v0 = "uo" \/ v0 = "vo"
         THEN Strftime(dt, <<"glorys_uovo_", "%Y", "_", "%m", "_", "%d">>) \o <<".nc">>
         ELSE IF v0 = "zos"
         THEN Strftime(dt, <<"glorys_zos_", "%Y", "_", "%m", "_", "%d">>) \o <<".nc">>
         ELSE Strftime(dt, <<"glorys_", "%Y", "_", "%m", "_", "%d">>) \o <<".nc">>
    ELSE IF v = "forecast_biogeochem_monthly"
    THEN Strftime(dt, <<"glorys_biogeochem_", "%Y", "_", "%m">>) \o <<".nc">>
    ELSE Strftime(dt, <<"glorys_", "%Y", "_", "%m", "_", "%d">>) \o <<".nc">>

\* out_fn for one window; the forecast-physics chain has no else branch, so
\* an unrecognised var_list[0] leaves out_fn as it was
OutFn(v, v0, dt, current) ==
    IF v = "forecast_physics_daily"
    THEN IF v0 = "so"
         THEN Strftime(dt, <<"glorys_so_", "%Y", "_", "%m", "_", "%d">>) \o <<".nc">>
         ELSE IF v0 = "thetao"
         THEN Strftime(dt, <<"glorys_thetao_", "%Y", "_", "%m", "_", "%d">>) \o <<".nc">>
         ELSE IF v0 = "uo" \/ v0 = "vo"
         THEN Strftime(dt, <<"glorys_uovo_", "%Y", "_", "%m", "_", "%d">>) \o <<".nc">>
         ELSE IF v0 = "zos"
         THEN Strftime(dt, <<"glorys_zos_", "%Y", "_", "%m", "_", "%d">>) \o <<".nc">>
         ELSE current
    ELSE IF v = "forecast_biogeochem_monthly"
    THEN Strftime(dt, <<"glorys_biogeochem_", "%Y", "_", "%m">>) \o <<".nc">>
    ELSE Strftime(dt, <<"glorys_", "%Y", "_", "%m", "_", "%d">>) \o <<".nc">>

Midnight == <<" ", "0", "0", ":", "0", "0", ":", "0", "0">>
EndOfDay == <<" ", "2", "3", ":", "5", "9", ":", "5", "9">>

\* dstr_min
DstrMin(v, dt) ==
    IF v = "forecast_biogeochem_monthly"
    THEN Strftime(dt, <<"%Y", "-", "%m", "-", "0", "1">> \o Midnight)
    ELSE Strftime(dt, <<"%Y", "-", "%m", "-", "%d">> \o Midnight)

\* dstr_max; monthly: dd_str = str(calendar.monthrange(year, month)[1])
DstrMax(v, dt) ==
    IF v = "forecast_biogeochem_monthly"
    THEN LET dd_str == IntStr(monthrange(DigitsVal(Strftime(dt, <<"%Y">>), 1, 4),
                                         DigitsVal(Strftime(dt, <<"%m">>), 1, 2)))
         IN  Strftime(dt, <<"%Y", "-", "%m", "-">> \o dd_str \o EndOfDay)
    ELSE Strftime(dt, <<"%Y", "-", "%m", "-", "%d">> \o EndOfDay)

\* the date label of a log line
DateLabel(v, dt) ==
    IF v = "forecast_biogeochem_monthly"
    THEN Strftime(dt, <<"%Y", "_", "%m">>)
    ELSE Strftime(dt, <<"%Y", "_", "%m", "_", "%d">>)

\* f.write('\n\n** Working on GLORYS extraction **')
HeaderText == <<"\n", "\n", "** Working on GLORYS extraction **">>

\* the string of f.write('\n ' + label + ' ' + result)
LogLine(v, dt, res) == <<"\n", " ">> \o DateLabel(v, dt) \o <<" ", res>>

\* ------------------------------------------------------------------------
\* State

VARIABLES
    variant,      \* which of the three scripts runs
    var_list,     \* user input: var_list
    date_start,   \* user input: date_start (ISO string)
    ndt,          \* user input: number_of_days / number_of_months
    cwd_is_out,   \* environment: the working directory is OUTPUT_DIRECTORY
    client,       \* environment: the download client the script calls
    counting,     \* whether the client invocations of the run are counted in total
    pc,           \* position of the script
    base,         \* base = datetime.fromisoformat(date_start)
    dt_list,      \* the window list
    dict,         \* data_request_options_dict_manual
    i,            \* number of the window the for loop is at (0 before the loop)
    out_fn,       \* out_fn, Unbound until first assigned
    counter,      \* get_extraction: counter
    got_file,     \* get_extraction: got_file
    result,       \* result returned by get_extraction
    f,            \* the log file object: "unopened", "open" or "closed"
    crash,        \* the uncaught exception that ended the run, or "none"
    files,        \* file names present in the output ("out") and working ("cwd") directory
    dir_exists,   \* OUTPUT_DIRECTORY exists
    logfile,      \* OUTPUT_DIRECTORY/log.txt: [exists, content]
    calls,        \* client invocations made for the current window
    firstOk,      \* number of the first successful invocation for the window, 0 if none
    attempted,    \* windows for which the client was invoked at least once
    succeeded,    \* windows for which a client invocation returned without error
    lastOutcome,  \* how the last client invocation ended
    total,        \* client invocations made in this run, when counted
    seen,         \* what the client read from its options at its last invocation
    run,          \* 1 in the first run of the script, 2 when it is run again
    first         \* what the first run left: its log, the windows it downloaded

cfgVars == <<variant, var_list, date_start, ndt, cwd_is_out, client, counting>>
progVars == <<pc, base, dt_list, dict, i, out_fn, counter, got_file, result, f, crash>>
envVars == <<files, dir_exists, logfile>>
histVars == <<calls, firstOk, attempted, succeeded, lastOutcome, total, seen, run, first>>
vars == <<cfgVars, progVars, envVars, histVars>>

\* how one call of motuclient.motu_api.execute_request can end: it returns,
\* raises socket.timeout, raises another Exception, or is interrupted
\* (KeyboardInterrupt / SystemExit, which are BaseExceptions)
ClientOutcomes == {"ok", "timeout", "error", "interrupt"}

\* a scripted stand-in for the client, as a test of the scripts uses: how
\* each call ends and which attributes it sets on the options it is given
\* are fixed by the number k of the window and the number j of the call
MockNames ==
    {"all_ok", "first_window_fails", "third_call", "sets_user", "sets_date_min",
     "sets_proxy_server"}

MockOutcome(m, k, j) ==
    IF m = "first_window_fails" THEN (IF k = 1 THEN "timeout" ELSE "ok")
    ELSE IF m = "third_call"
    THEN (IF k = 1 THEN (IF j < 3 THEN "interrupt" ELSE "ok") ELSE "error")
    ELSE IF m \in {"sets_date_min", "sets_proxy_server"}
    THEN (IF j = 1 THEN "error" ELSE "ok")
    ELSE "ok"

\* the attribute assignments the stand-in makes during call j of window k,
\* as a sequence of <<name, value>>
MockSets(m, k, j) ==
    IF m = "sets_user" /\ k = 1 /\ j = 1 THEN << <<"user", "other">> >>
    ELSE IF m = "sets_date_min" /\ j = 1
    THEN << <<"date_min", <<"1", "9", "9", "9", "-", "0", "1", "-", "0", "1">> \o Midnight>> >>
    ELSE IF m = "sets_proxy_server" /\ k = 1 /\ j = 1
    THEN << <<"proxy_server", <<"proxy:8080">> >> >>
    ELSE << >>

\* the ways call j for window k can end, and what it sets, for client c;
\* the live service sets none of the attributes of the template
Outcomes(c, k, j) == IF c = "live" THEN ClientOutcomes ELSE {MockOutcome(c, k, j)}
Sets(c, k, j) == IF c = "live" THEN << >> ELSE MockSets(c, k, j)

\* Python's None
None == <<"None">>

\* mutant: __getattr__ without the try / except KeyError
getattrNoExcept(attrs, k) ==
    IF k \in DOMAIN attrs THEN attrs[k] ELSE <<"KeyError">>

\* MotuOptions.__getattr__: self.attrs[k], None when the key is absent
getattr(attrs, k) ==
    IF k \in DOMAIN attrs THEN attrs[k] ELSE None

\* MotuOptions.__setattr__: self.attrs[k] = v
setattr(attrs, k, v) ==
    [x \in DOMAIN attrs \cup {k} |-> IF x = k THEN v ELSE attrs[x]]

\* the attribute assignments of one call, applied in order
RECURSIVE SetAll(_, _)
SetAll(attrs, ws) ==
    IF ws = << >> THEN attrs
    ELSE SetAll(setattr(attrs, Head(ws)[1], Head(ws)[2]), Tail(ws))

\* mutant: __init__ stores a copy, dict(attrs), so the template stays as it was
MotuOptionsCopy(template, attrs) == template

\* MotuOptions.__init__ stores the mapping it is given, not a copy:
\* self.attrs is the caller's template, which therefore is whatever the
\* adapter's mapping is when the call ends
MotuOptions(template, attrs) == attrs

\* the options the client reads at every call: the output name, and the
\* proxy server, which the template does not have
ProbeKeys == {"out_name", "proxy_server"}

\* credentials typed at the prompts
Usernames == {"user"}
Passwords == {"secret"}

\* a relative path is resolved against the working directory
CwdDir == IF cwd_is_out THEN "out" ELSE "cwd"

\* os.path.isfile(name) for a relative name
IsFile(name) == name \in files[CwdDir]

\* the output names the configured run will use
WindowNames(v, vars0, ds, n) ==
    {OutFn(v, vars0[1], MakeDtList(v, Fromisoformat(ds), n)[k], Unbound) : k \in 1..n}
        \ {Unbound}

\* files left by earlier runs: none, or one of the run's own output names
StaleChoices(S) == {{}} \cup {{x} : x \in S}

OldLog == <<"\n", "\n", "** Working on GLORYS extraction **", "\n", " ", "old">>

InitFor(clients, countings, dates) ==
    /\ variant \in Variants
    /\ client \in clients
    /\ counting \in countings
    /\ var_list \in VarLists(variant)
    /\ date_start \in dates
    /\ ndt \in 0..MaxN
    /\ cwd_is_out \in BOOLEAN
    /\ dir_exists \in (IF cwd_is_out THEN {TRUE} ELSE BOOLEAN)
    /\ \E so \in StaleChoices(WindowNames(variant, var_list, date_start, ndt)),
          sc \in StaleChoices(WindowNames(variant, var_list, date_start, ndt)) :
            files = [d \in {"out", "cwd"} |->
                        IF d = "out" THEN (IF dir_exists THEN so ELSE {})
                        ELSE (IF cwd_is_out THEN {} ELSE sc)]
    /\ logfile \in (IF dir_exists
                    THEN {[exists |-> FALSE, content |-> <<>>],
                          [exists |-> TRUE, content |-> OldLog]}
                    ELSE {[exists |-> FALSE, content |-> <<>>]})
    /\ pc = "setup"
    /\ base = Unbound
    /\ dt_list = <<>>
    /\ dict = [k \in {} |-> Blank]
    /\ i = 0
    /\ out_fn = Unbound
    /\ counter = 0
    /\ got_file = FALSE
    /\ result = "none"
    /\ f = "unopened"
    /\ crash = "none"
    /\ calls = 0
    /\ firstOk = 0
    /\ attempted = {}
    /\ succeeded = {}
    /\ lastOutcome = "none"
    /\ total = 0
    /\ seen = [k \in ProbeKeys |-> None]
    /\ run = 1
    /\ first = [log |-> << >>, succeeded |-> {}]

\* the scripts run against the live service
Init == InitFor({"live"}, {FALSE}, DateStarts)

\* the same, with the client invocations of the run counted, for two of the
\* start dates
CountDateStarts == {Iso(2020, 2, 28, 0, 0, 0), Iso(2022, 1, 1, 0, 0, 0)}
CountInit == InitFor({"live"}, {TRUE}, CountDateStarts)

\* the scripts run against a scripted stand-in for the client
MockInit == InitFor(MockNames, {TRUE}, DateStarts)

\* mutant: the exception is caught around the loop body and the loop goes on
RaiseAndContinue(exc) ==
    /\ pc' = IF pc \in {"overwrite_check", "log"} THEN "loop" ELSE "crashed"
    /\ crash' = exc

\* an uncaught exception: the traceback is printed and the script ends
Raise(exc) ==
    /\ pc' = "crashed"
    /\ crash' = exc

\* lines 161-198: window list, credential prompts, template, product choice
Setup ==
    /\ pc = "setup"
    /\ base' = Fromisoformat(date_start)
    /\ dt_list' = MakeDtList(variant, base', ndt)
    /\ \E user \in Usernames, pwd \in Passwords :
         dict' = IF variant = "forecast_physics_daily"
                 THEN [Template(variant, var_list, user, pwd)
                          EXCEPT !.product_id = SelectProductId(var_list[1], @)]
                 ELSE Template(variant, var_list, user, pwd)
    /\ pc' = "ensure_dir"
    /\ UNCHANGED <<cfgVars, i, out_fn, counter, got_file, result, f, crash,
                   envVars, histVars>>

\* ensure_dir(out_dir): os.makedirs when the directory does not exist
EnsureDir ==
    /\ pc = "ensure_dir"
    /\ pc' = "open"
    /\ dir_exists' = TRUE
    /\ UNCHANGED <<cfgVars, base, dt_list, dict, i, out_fn, counter, got_file, result,
                   f, crash, files, logfile, histVars>>

\* os.makedirs raises (permission denied, read-only file system, ...)
EnsureDirFails ==
    /\ pc = "ensure_dir"
    /\ ~dir_exists
    /\ Raise("makedirs")
    /\ UNCHANGED <<cfgVars, base, dt_list, dict, i, out_fn, counter, got_file, result,
                   f, envVars, histVars>>

\* mutant: the log opened in append mode ('a+'), keeping an earlier log
OpenLogAppend ==
    /\ pc = "open"
    /\ logfile' = [exists |-> TRUE, content |-> logfile.content]
    /\ f' = "open"
    /\ pc' = "header"
    /\ UNCHANGED <<cfgVars, base, dt_list, dict, i, out_fn, counter, got_file, result,
                   crash, files, dir_exists, histVars>>

\* f = open(out_dir + 'log.txt', 'w+'): creates the file or truncates it
OpenLog ==
    /\ pc = "open"
    /\ logfile' = [exists |-> TRUE, content |-> <<>>]
    /\ f' = "open"
    /\ pc' = "header"
    /\ UNCHANGED <<cfgVars, base, dt_list, dict, i, out_fn, counter, got_file, result,
                   crash, files, dir_exists, histVars>>

OpenLogFails ==
    /\ pc = "open"
    /\ Raise("open")
    /\ UNCHANGED <<cfgVars, base, dt_list, dict, i, out_fn, counter, got_file, result,
                   f, envVars, histVars>>

\* f.write(text): appends to the log
FWrite(text) == logfile' = [logfile EXCEPT !.content = @ \o text]

\* f.write('\n\n** Working on GLORYS extraction **')
WriteHeader ==
    /\ pc = "header"
    /\ FWrite(HeaderText)
    /\ pc' = "loop"
    /\ UNCHANGED <<cfgVars, base, dt_list, dict, i, out_fn, counter, got_file, result,
                   f, crash, files, dir_exists, histVars>>

WriteHeaderFails ==
    /\ pc = "header"
    /\ Raise("write_header")
    /\ UNCHANGED <<cfgVars, base, dt_list, dict, i, out_fn, counter, got_file, result,
                   f, envVars, histVars>>

\* force_overwrite = True
force_overwrite == TRUE

\* mutant: dstr_max stored under the key "depth_max" instead of "date_max"
NextWindowWrongKey ==
    /\ pc = "loop"
    /\ i < Len(dt_list)
    /\ LET dt == dt_list[i + 1]
       IN  /\ out_fn' = OutFn(variant, var_list[1], dt, out_fn)
           /\ out_fn' # Unbound
           /\ dict' = [dict EXCEPT !.out_name = out_fn',
                                   !.date_min = DstrMin(variant, dt),
                                   !.depth_max = DstrMax(variant, dt)]
    /\ i' = i + 1
    /\ pc' = "overwrite_check"
    /\ UNCHANGED <<cfgVars, base, dt_list, counter, got_file, result, f, crash,
                   envVars, histVars>>

\* for dt in dt_list: out_fn, dstr_min, dstr_max and the three dict updates
NextWindow ==
    /\ pc = "loop"
    /\ i < Len(dt_list)
    /\ LET dt == dt_list[i + 1]
       IN  /\ out_fn' = OutFn(variant, var_list[1], dt, out_fn)
           /\ out_fn' # Unbound
           /\ dict' = [dict EXCEPT !.out_name = out_fn',
                                   !.date_min = DstrMin(variant, dt),
                                   !.date_max = DstrMax(variant, dt)]
    /\ i' = i + 1
    /\ pc' = "overwrite_check"
    /\ UNCHANGED <<cfgVars, base, dt_list, counter, got_file, result, f, crash,
                   envVars, histVars>>

\* no branch of the if/elif chain assigned out_fn: reading it raises NameError
NextWindowNameError ==
    /\ pc = "loop"
    /\ i < Len(dt_list)
    /\ OutFn(variant, var_list[1], dt_list[i + 1], out_fn) = Unbound
    /\ i' = i + 1
    /\ Raise("NameError")
    /\ UNCHANGED <<cfgVars, base, dt_list, dict, out_fn, counter, got_file, result, f,
                   envVars, histVars>>

\* if os.path.isfile(out_fn): if force_overwrite: os.remove(out_fn)
FilesAfterOverwrite ==
    IF IsFile(out_fn) /\ force_overwrite
    THEN [files EXCEPT ![CwdDir] = @ \ {out_fn}]
    ELSE files

\* mutant: counter initialised once, before the loop over the windows, and
\* not in get_extraction
OverwriteCheckSharedCounter ==
    /\ pc = "overwrite_check"
    /\ files' = FilesAfterOverwrite
    /\ IF out_fn \notin FilesAfterOverwrite[CwdDir]
       THEN /\ pc' = "extract"
            /\ counter' = IF i = 1 THEN 1 ELSE counter
            /\ got_file' = FALSE
            /\ calls' = 0
            /\ firstOk' = 0
            /\ lastOutcome' = "none"
       ELSE /\ pc' = "loop"
            /\ UNCHANGED <<counter, got_file, calls, firstOk, lastOutcome>>
    /\ UNCHANGED <<cfgVars, base, dt_list, dict, i, out_fn, result, f, crash,
                   dir_exists, logfile, attempted, succeeded, total, seen, run, first>>

\* the overwrite check, then "if not os.path.isfile(out_fn)": entry of
\* get_extraction (counter = 1, got_file = False) or skip of the window
OverwriteCheck ==
    /\ pc = "overwrite_check"
    /\ files' = FilesAfterOverwrite
    /\ IF out_fn \notin FilesAfterOverwrite[CwdDir]
       THEN /\ pc' = "extract"
            /\ counter' = 1
            /\ got_file' = FALSE
            /\ calls' = 0
            /\ firstOk' = 0
            /\ lastOutcome' = "none"
       ELSE /\ pc' = "loop"
            /\ UNCHANGED <<counter, got_file, calls, firstOk, lastOutcome>>
    /\ UNCHANGED <<cfgVars, base, dt_list, dict, i, out_fn, result, f, crash,
                   dir_exists, logfile, attempted, succeeded, total, seen, run, first>>

\* os.remove raises (permission denied, file in use, ...)
RemoveFails ==
    /\ pc = "overwrite_check"
    /\ IsFile(out_fn) /\ force_overwrite
    /\ Raise("remove")
    /\ UNCHANGED <<cfgVars, base, dt_list, dict, i, out_fn, counter, got_file, result,
                   f, envVars, histVars>>

\* mutant: the loop test without the got_file condition
LoopConditionCounterOnly == counter <= MaxAttempts

\* mutant: the loop test written with < instead of <=
LoopConditionLt == counter < MaxAttempts /\ got_file = FALSE

\* while (counter <= 10) and (got_file == False)
LoopCondition == counter <= MaxAttempts /\ got_file = FALSE

\* mutant: no bare except clause, only socket.timeout is caught
ExceptClauseTimeoutOnly(o) ==
    IF o = "ok" THEN "else"
    ELSE IF o = "timeout" THEN "except timeout"
    ELSE "uncaught"

\* mutant: the catch-all clause written "except Exception:", which lets
\* KeyboardInterrupt and SystemExit through
ExceptClauseException(o) ==
    IF o = "ok" THEN "else"
    ELSE IF o = "timeout" THEN "except timeout"
    ELSE IF o = "error" THEN "except"
    ELSE "uncaught"

\* which clause of try / except timeout / except / else runs for an outcome
\* of the client call
ExceptClause(o) ==
    IF o = "ok" THEN "else"
    ELSE IF o = "timeout" THEN "except timeout"
    ELSE "except"

\* execute_request(MotuOptions(dict)): a successful call writes
\* out_dir/out_name
ExecuteRequest(o) ==
    IF o = "ok" THEN [files EXCEPT !["out"] = @ \cup {dict.out_name}] ELSE files

\* one pass of the while loop of get_extraction
Attempt(o) ==
    /\ pc = "extract"
    /\ LoopCondition
    /\ o \in Outcomes(client, i, calls + 1)
    /\ files' = ExecuteRequest(o)
    /\ seen' = [k \in ProbeKeys |-> getattr(dict, k)]
    /\ dict' = MotuOptions(dict, SetAll(dict, Sets(client, i, calls + 1)))
    /\ calls' = calls + 1
    /\ total' = IF counting THEN total + 1 ELSE total
    /\ attempted' = attempted \cup {i}
    /\ succeeded' = IF o = "ok" THEN succeeded \cup {i} ELSE succeeded
    /\ lastOutcome' = o
    /\ firstOk' = IF o = "ok" /\ firstOk = 0 THEN calls + 1 ELSE firstOk
    /\ IF ExceptClause(o) = "else"
       THEN got_file' = TRUE /\ counter' = counter + 1 /\ UNCHANGED <<pc, crash>>
       ELSE IF ExceptClause(o) \in {"except timeout", "except"}
       THEN got_file' = got_file /\ counter' = counter + 1 /\ UNCHANGED <<pc, crash>>
       ELSE Raise(o) /\ UNCHANGED <<got_file, counter>>
    /\ UNCHANGED <<cfgVars, base, dt_list, i, out_fn, result, f, dir_exists, logfile,
                   run, first>>

\* result returned by get_extraction
ResultOf(got) == IF got THEN "success" ELSE "fail"

\* mutant: an exhausted retry loop raises instead of returning 'fail'
ReturnRaisesOnFail ==
    /\ pc = "extract"
    /\ ~LoopCondition
    /\ IF got_file
       THEN result' = ResultOf(got_file) /\ pc' = "log" /\ UNCHANGED crash
       ELSE Raise("retries exhausted") /\ UNCHANGED result
    /\ UNCHANGED <<cfgVars, base, dt_list, dict, i, out_fn, counter, got_file, f,
                   envVars, histVars>>

\* mutant: the return statement indented into the while loop
ReturnInsideLoop ==
    /\ pc = "extract"
    /\ counter > 1
    /\ result' = ResultOf(got_file)
    /\ pc' = "log"
    /\ UNCHANGED <<cfgVars, base, dt_list, dict, i, out_fn, counter, got_file, f, crash,
                   envVars, histVars>>

\* the while loop ends; result = 'success' / 'fail'; return
Return ==
    /\ pc = "extract"
    /\ ~LoopCondition
    /\ result' = ResultOf(got_file)
    /\ pc' = "log"
    /\ UNCHANGED <<cfgVars, base, dt_list, dict, i, out_fn, counter, got_file, f, crash,
                   envVars, histVars>>

\* f.write('\n ' + datetime.strftime(dt, ...) + ' ' + result)
WriteLog ==
    /\ pc = "log"
    /\ FWrite(LogLine(variant, dt_list[i], result))
    /\ pc' = "loop"
    /\ UNCHANGED <<cfgVars, base, dt_list, dict, i, out_fn, counter, got_file, result,
                   f, crash, files, dir_exists, histVars>>

WriteLogFails ==
    /\ pc = "log"
    /\ Raise("write_log")
    /\ UNCHANGED <<cfgVars, base, dt_list, dict, i, out_fn, counter, got_file, result,
                   f, envVars, histVars>>

\* the for loop is exhausted: 'All downloads are completed.', f.close()
Finish ==
    /\ pc = "loop"
    /\ i = Len(dt_list)
    /\ f' = "closed"
    /\ pc' = "done"
    /\ UNCHANGED <<cfgVars, base, dt_list, dict, i, out_fn, counter, got_file, result,
                   crash, envVars, histVars>>

Next ==
    \/ Setup
    \/ EnsureDir
    \/ EnsureDirFails
    \/ OpenLog
    \/ OpenLogFails
    \/ WriteHeader
    \/ WriteHeaderFails
    \/ NextWindow
    \/ NextWindowNameError
    \/ OverwriteCheck
    \/ RemoveFails
    \/ \E o \in ClientOutcomes : Attempt(o)
    \/ Return
    \/ WriteLog
    \/ WriteLogFails
    \/ Finish

Spec == Init /\ [][Next]_vars

\* the finished script is started again with the same user inputs, in the
\* directories as the first run left them
Rerun ==
    /\ pc = "done"
    /\ run = 1
    /\ run' = 2
    /\ first' = [log |-> logfile.content, succeeded |-> succeeded]
    /\ pc' = "setup"
    /\ base' = Unbound
    /\ dt_list' = <<>>
    /\ dict' = [k \in {} |-> Blank]
    /\ i' = 0
    /\ out_fn' = Unbound
    /\ counter' = 0
    /\ got_file' = FALSE
    /\ result' = "none"
    /\ f' = "unopened"
    /\ calls' = 0
    /\ firstOk' = 0
    /\ attempted' = {}
    /\ succeeded' = {}
    /\ lastOutcome' = "none"
    /\ total' = 0
    /\ seen' = [k \in ProbeKeys |-> None]
    /\ UNCHANGED <<cfgVars, crash, envVars>>

MockNext == Next \/ Rerun

\* one or two runs of a script against a scripted stand-in for the client
MockSpec == MockInit /\ [][MockNext]_vars

\* the interpreter runs the script statement by statement until it ends
FairSpec == Spec /\ WF_vars(Next)

\* the same runs with the client invocations counted
FairCountSpec == CountInit /\ [][Next]_vars /\ WF_vars(Next)

\* ------------------------------------------------------------------------
\* Properties

\* the uncaught exceptions that come from the file system or from the
\* configuration, not from the download client
FsCauses == {"makedirs", "open", "write_header", "remove", "write_log"}

\* C1: bounded retry for one window.  When get_extraction has returned: if
\* no client call succeeded, exactly 10 calls were made and the result is
\* 'fail'; if the first success was call k, then 1 <= k <= 10, exactly k
\* calls were made and the result is 'success'.  While the loop runs no call
\* follows a successful one and never more than 10 calls are made.
C1_RetryBound ==
    /\ pc = "extract" =>
         /\ calls <= 10
         /\ (firstOk # 0 => calls = firstOk /\ lastOutcome = "ok")
    /\ pc = "log" =>
         /\ (firstOk = 0 => calls = 10 /\ result = "fail")
         /\ (firstOk # 0 =>
               /\ firstOk \in 1..10
               /\ calls = firstOk
               /\ lastOutcome = "ok"
               /\ result = "success")

\* C1 witness: the client succeeded on its 10th call and 'success' was returned
C1_Witness ==
    pc = "log" /\ firstOk = 10 /\ calls = 10 /\ result = "success"

\* text.split('\n')
RECURSIVE SplitLines(_)
SplitLines(text) ==
    IF text = <<>> THEN << <<>> >>
    ELSE CHOOSE lines \in
             {IF Head(text) = "\n"
              THEN << <<>> >> \o rest
              ELSE << <<Head(text)>> \o Head(rest) >> \o Tail(rest) :
                  rest \in {SplitLines(Tail(text))}} : TRUE

LogLines == SplitLines(logfile.content)

\* the outcome token a window should get: did a client call for it succeed
OutcomeToken(k) == IF k \in succeeded THEN "success" ELSE "fail"

\* a line is a log line of window k: its date label, then an outcome token
IsLineOf(line, k) ==
    \E label \in {DateLabel(variant, dt_list[k])} :
        \E res \in {"success", "fail"} :
            \/ line = label \o <<" ", res>>
            \/ line = <<" ">> \o label \o <<" ", res>>

LinesOf(k) ==
    CHOOSE S \in {{n \in 1..Len(ll) : IsLineOf(ll[n], k)} : ll \in {LogLines}} : TRUE

\* C2: a window whose attempts all fail does not stop the run.  The run
\* never ends by an exception that comes from the client; it always ends
\* (completed, or stopped by a file-system or configuration error); and a
\* completed run has attempted every window at least once and given every
\* window exactly one log line.
C2_RunContinues ==
    /\ [](pc = "crashed" => crash \in FsCauses \cup {"NameError"})
    /\ [](pc = "done" =>
            \A k \in 1..ndt : k \in attempted /\ Cardinality(LinesOf(k)) = 1)
    /\ <>(pc = "done" \/ (pc = "crashed" /\ crash \in FsCauses \cup {"NameError"}))

\* C2 witness: a completed run of two windows, both of which ended in 'fail'
C2_Witness ==
    pc = "done" /\ ndt = 2 /\ succeeded = {} /\ attempted = {1, 2}

\* C3 as claimed: after a complete run the log holds exactly N lines, line k
\* being window k's date label followed by its outcome token, and no other
\* lines.
C3_Original ==
    pc = "done" =>
        /\ Len(LogLines) = ndt
        /\ \A k \in 1..ndt :
              LogLines[k] = DateLabel(variant, dt_list[k]) \o <<" ", OutcomeToken(k)>>

\* C3 amended: after a complete run the log holds two empty lines, the
\* header line, and then exactly N lines, one per window in window order,
\* each a space, the window's date label, a space and the window's own
\* outcome token.
C3_LogContent ==
    pc = "done" =>
        LogLines =
            << <<>>, <<>>, <<"** Working on GLORYS extraction **">> >> \o
            [k \in 1..ndt |->
                <<" ">> \o DateLabel(variant, dt_list[k]) \o <<" ", OutcomeToken(k)>>]

\* C3 witness: a completed run of two windows, the first forced to succeed
\* and the second forced to fail, in a directory that held an earlier log
C3_Witness ==
    pc = "done" /\ ndt = 2 /\ succeeded = {1} /\ Len(LogLines) = 5

\* C4 as claimed: no client invocation starts while a file with the
\* window's output name is present in the output directory.
C4_NoStaleFileAtDownload ==
    [][(pc = "extract" /\ calls' = calls + 1) => dict.out_name \notin files["out"]]_vars

\* ------------------------------------------------------------------------
\* The calendar, stated independently of the date arithmetic above

RefLeap(y) == (y % 4 = 0 /\ y % 100 # 0) \/ y % 400 = 0

RefDaysIn(y, m) ==
    IF m \in {4, 6, 9, 11} THEN 30
    ELSE IF m = 2 THEN (IF RefLeap(y) THEN 29 ELSE 28)
    ELSE 31

\* the calendar day after <<y, m, d>>
RefNextDay(ymd) ==
    IF ymd[3] < RefDaysIn(ymd[1], ymd[2]) THEN <<ymd[1], ymd[2], ymd[3] + 1>>
    ELSE IF ymd[2] < 12 THEN <<ymd[1], ymd[2] + 1, 1>>
    ELSE <<ymd[1] + 1, 1, 1>>

RECURSIVE RefAddDays(_, _)
RefAddDays(ymd, n) == IF n = 0 THEN ymd ELSE RefNextDay(RefAddDays(ymd, n - 1))

\* the calendar month after <<y, m>>
RefNextMonth(ym) == IF ym[2] = 12 THEN <<ym[1] + 1, 1>> ELSE <<ym[1], ym[2] + 1>>

RECURSIVE RefAddMonths(_, _)
RefAddMonths(ym, n) == IF n = 0 THEN ym ELSE RefNextMonth(RefAddMonths(ym, n - 1))

\* a timestamp string 'YYYY-MM-DD HH:MM:SS' read back
ParseDate(s) == <<DigitsVal(s, 1, 4), DigitsVal(s, 6, 7), DigitsVal(s, 9, 10)>>
ParseTime(s) == <<DigitsVal(s, 12, 13), DigitsVal(s, 15, 16), DigitsVal(s, 18, 19)>>
SecondOfDay(s) == ParseTime(s)[1] * 3600 + ParseTime(s)[2] * 60 + ParseTime(s)[3]
WellFormedTimestamp(s) ==
    /\ Len(s) = 19
    /\ s[5] = "-" /\ s[8] = "-" /\ s[11] = " " /\ s[14] = ":" /\ s[17] = ":"
    /\ \A k \in (1..19) \ {5, 8, 11, 14, 17} : \E n \in 1..10 : Digits[n] = s[k]

\* the start date T0 as configured
T0 == ParseDate(date_start)

Daily == variant \in {"forecast_physics_daily", "reanalysis_daily"}
Monthly == variant = "forecast_biogeochem_monthly"

\* the request of the current window is filled in
InWindow == pc \in {"overwrite_check", "extract", "log"}

\* C5: daily window generation.  Exactly N windows are generated, in
\* increasing order.  The request of window i has date_min = calendar day
\* T0 + (i-1) days at 00:00:00 and date_max = the same day at 23:59:59, so
\* the end is after the start; the start of window i is the calendar day
\* after the start of window i-1 at the same time of day (24 hours later).
C5_DailyWindows ==
    Daily =>
        /\ pc # "setup" =>
              /\ Len(dt_list) = ndt
              /\ \A k \in 1..Len(dt_list) :
                    <<dt_list[k].year, dt_list[k].month, dt_list[k].day>>
                        = RefAddDays(T0, k - 1)
        /\ InWindow =>
              /\ WellFormedTimestamp(dict.date_min)
              /\ WellFormedTimestamp(dict.date_max)
              /\ ParseDate(dict.date_min) = RefAddDays(T0, i - 1)
              /\ ParseTime(dict.date_min) = <<0, 0, 0>>
              /\ ParseDate(dict.date_max) = ParseDate(dict.date_min)
              /\ ParseTime(dict.date_max) = <<23, 59, 59>>
              /\ SecondOfDay(dict.date_max) > SecondOfDay(dict.date_min)
              /\ i > 1 =>
                    /\ ParseDate(dict.date_min)
                         = RefNextDay(ParseDate(DstrMin(variant, dt_list[i - 1])))
                    /\ SecondOfDay(dict.date_min)
                         = SecondOfDay(DstrMin(variant, dt_list[i - 1]))

\* C5 witness: the second daily window of a run started on 2020-02-28 is
\* being downloaded and covers the leap day 2020-02-29
C5_Witness ==
    /\ Daily /\ pc = "extract" /\ i = 2 /\ calls >= 1
    /\ T0 = <<2020, 2, 28>>
    /\ dict.date_min = Iso(2020, 2, 29, 0, 0, 0)
    /\ dict.date_max = Iso(2020, 2, 29, 23, 59, 59)

\* C6: monthly window generation.  Exactly N windows are generated.  The
\* request of window i has date_min = first day of the calendar month
\* (month of T0) + (i-1) months at 00:00:00 and date_max = the last day of
\* that month (28, 29, 30 or 31 by month and leap-year rule) at 23:59:59;
\* the month after December is January of the next year; no two windows
\* cover the same month.
C6_MonthlyWindows ==
    Monthly =>
        /\ pc # "setup" =>
              /\ Len(dt_list) = ndt
              /\ \A k \in 1..Len(dt_list) :
                    <<dt_list[k].year, dt_list[k].month>>
                        = RefAddMonths(<<T0[1], T0[2]>>, k - 1)
              /\ \A j, k \in 1..Len(dt_list) :
                    j # k =>
                        SubSeq(DstrMin(variant, dt_list[j]), 1, 7)
                            # SubSeq(DstrMin(variant, dt_list[k]), 1, 7)
        /\ InWindow =>
              LET ym == RefAddMonths(<<T0[1], T0[2]>>, i - 1)
              IN  /\ WellFormedTimestamp(dict.date_min)
                  /\ WellFormedTimestamp(dict.date_max)
                  /\ ParseDate(dict.date_min) = <<ym[1], ym[2], 1>>
                  /\ ParseTime(dict.date_min) = <<0, 0, 0>>
                  /\ ParseDate(dict.date_max) = <<ym[1], ym[2], RefDaysIn(ym[1], ym[2])>>
                  /\ ParseTime(dict.date_max) = <<23, 59, 59>>

\* C6 witness: a monthly run started in December 2021 is downloading its
\* second window, January 2022
C6_Witness ==
    /\ Monthly /\ pc = "extract" /\ i = 2 /\ calls >= 1
    /\ T0 = <<2021, 12, 31>>
    /\ dict.date_min = Iso(2022, 1, 1, 0, 0, 0)
    /\ dict.date_max = Iso(2022, 1, 31, 23, 59, 59)

\* the product each recognised first variable stands for
RefProduct(v0) ==
    CASE v0 = "so" -> <<"cmems_mod_glo_phy-so_anfc_0.083deg_P1D-m">>
      [] v0 = "thetao" -> <<"cmems_mod_glo_phy-thetao_anfc_0.083deg_P1D-m">>
      [] v0 \in {"uo", "vo"} -> <<"cmems_mod_glo_phy-cur_anfc_0.083deg_P1D-m">>
      [] v0 = "zos" -> <<"cmems_mod_glo_phy_anfc_0.083deg_P1D-m">>

Recognised == {"so", "thetao", "uo", "vo", "zos"}

\* C7: forecast-physics product selection.  From the end of the set-up on,
\* hence at every client invocation, the product identifier of the request
\* is the one its first variable stands for ('uo' and 'vo' the same
\* currents product) and is not the blank placeholder.
C7_ProductSelection ==
    (variant = "forecast_physics_daily" /\ pc # "setup" /\ var_list[1] \in Recognised) =>
        /\ dict.product_id = RefProduct(var_list[1])
        /\ dict.product_id # Blank

\* C7 witness: a request with first variable 'vo' has reached the client
C7_Witness ==
    /\ variant = "forecast_physics_daily" /\ var_list[1] = "vo"
    /\ pc = "extract" /\ calls >= 1
    /\ dict.product_id = <<"cmems_mod_glo_phy-cur_anfc_0.083deg_P1D-m">>

\* the output name window k gets under the configured variable selection,
\* and the name the current window would get under another selection
NameOfWindow(k) == OutFn(variant, var_list[1], dt_list[k], Unbound)
NameUnder(vl) == OutFn(variant, vl[1], dt_list[i], Unbound)

\* C8 as claimed: naming is injective in the date and in the variable
\* selection: no other window of the run has the current window's output
\* name, and no other variable selection gives the current window the same
\* output name.
C8_Original ==
    InWindow =>
        /\ \A k \in 1..Len(dt_list) : k # i => NameOfWindow(k) # dict.out_name
        /\ \A vl \in VarLists(variant) :
              (vl # var_list /\ NameUnder(vl) # Unbound) => NameUnder(vl) # dict.out_name

\* C8 amended: naming is injective in the date: no other window of the run
\* has the current window's output name.  In the variable selection it is
\* injective only up to the product of the first variable, and only in the
\* forecast-physics script: there two selections give the current window
\* the same name exactly when their first variables select the same product
\* ('uo' and 'vo' share one); in the two other scripts the name does not
\* depend on the variable selection.
C8_NamingInjectiveInDate ==
    InWindow =>
        /\ dict.out_name = NameOfWindow(i)
        /\ \A k \in 1..Len(dt_list) : k # i => NameOfWindow(k) # dict.out_name
        /\ \A vl \in VarLists(variant) :
              NameUnder(vl) # Unbound =>
                 ((NameUnder(vl) = dict.out_name) <=>
                    (variant = "forecast_physics_daily" =>
                        RefProduct(vl[1]) = RefProduct(var_list[1])))

\* C8 witness: the second window of a forecast-physics run with
\* var_list = ["uo", "vo"] is being downloaded
C8_Witness ==
    /\ variant = "forecast_physics_daily" /\ var_list = <<"uo", "vo">>
    /\ pc = "extract" /\ i = 2 /\ calls >= 1
    /\ NameUnder(<<"vo", "uo">>) = dict.out_name

\* C9: an error raised by the client during an attempt, a socket timeout or
\* any other error alike, does not leave get_extraction: the run stays in
\* the retry loop with no uncaught exception, the attempt has not produced
\* the file, the attempt counter has advanced by one, and nothing else of
\* the program has changed; the next attempt follows unless 10 are used up.
C9_ErrorsRetried ==
    [][\A o \in {"timeout", "error"} :
          (pc = "extract" /\ calls' = calls + 1 /\ lastOutcome' = o) =>
              /\ pc' = "extract"
              /\ crash' = "none"
              /\ got_file' = FALSE
              /\ counter' = counter + 1
              /\ UNCHANGED <<cfgVars, base, dt_list, dict, i, out_fn, result, f, envVars>>
              /\ (counter' <= 10 <=> LoopCondition')]_vars

\* C9 witness: in one window a socket timeout was followed by another error
\* and the retry loop is still running
C9_Witness ==
    pc = "extract" /\ calls = 2 /\ counter = 3 /\ lastOutcome = "error" /\ ~got_file

\* C10 as claimed: after a file-system error the run has ended, and the
\* current window and every later one has no client invocation and no log
\* line.
C10_Original ==
    crash \in FsCauses =>
        /\ pc = "crashed"
        /\ \A k \in 1..Len(dt_list) :
              k >= i => (k \notin attempted /\ LinesOf(k) = {})

\* C10 amended: a file-system error is not retried and not absorbed: the
\* run has ended and takes no further step, so no client invocation and no
\* log line follows it.  The current window and every later one has no log
\* line; every later window has no client invocation; the current window has
\* none either unless the failing operation is the window's own log write,
\* which comes after its download attempts.
C10_FsErrorsEndRun ==
    /\ [](crash \in FsCauses =>
            /\ pc = "crashed"
            /\ \A k \in 1..Len(dt_list) :
                  /\ k >= i => LinesOf(k) = {}
                  /\ k > i => k \notin attempted
                  /\ (k = i /\ crash # "write_log") => k \notin attempted
            /\ (crash = "write_log" => i \in attempted))
    /\ [][crash \notin FsCauses]_vars

\* C10 witness: deleting the existing file of the second window failed
C10_Witness ==
    pc = "crashed" /\ crash = "remove" /\ i = 2 /\ attempted = {1}

\* C11 as claimed: idempotence of a run.  When the script is run a second
\* time over the same windows against a client that behaves as in the first
\* run, the output file a window's first run left in the output directory
\* has been deleted when the client is invoked for that window again, the
\* invocations that succeed put it back, and the log the second run leaves
\* has the content of the first run's log.
C11_Idempotence ==
    [][/\ (run = 2 /\ pc = "extract" /\ calls = 0 /\ calls' = 1 /\ i \in first.succeeded) =>
             /\ dict.out_name \notin files["out"]
             /\ lastOutcome' = "ok" => dict.out_name \in files'["out"]
       /\ (run = 2 /\ pc' = "done") => logfile'.content = first.log]_vars

\* C12: strictly sequential processing.  The loop moves from one window to
\* the next in generation order, and only between windows.  At every client
\* invocation, which is for the current window i: every earlier window has
\* been attempted and has its log line, no later window has been attempted
\* or logged, and window i has no log line yet.  The log line of window i is
\* written only when its retry loop has ended, by a success or by the 10th
\* failure.
C12_Sequential ==
    /\ [](pc = "extract" =>
            /\ i \in 1..Len(dt_list)
            /\ LinesOf(i) = {}
            /\ \A k \in 1..Len(dt_list) :
                  /\ k < i => (k \in attempted /\ Cardinality(LinesOf(k)) = 1)
                  /\ k > i => (k \notin attempted /\ LinesOf(k) = {}))
    /\ [][/\ i' \in {i, i + 1}
          /\ i' = i + 1 => pc = "loop"
          /\ calls' = calls + 1 => (pc = "extract" /\ attempted' = attempted \cup {i})
          /\ (pc = "log" /\ logfile' # logfile) =>
                /\ got_file \/ (counter = 11 /\ calls = 10)
                /\ ~LoopCondition
                /\ LinesOf(i) = {}
                /\ Cardinality(LinesOf(i)') = 1
                /\ \A k \in 1..Len(dt_list) : k # i => LinesOf(k)' = LinesOf(k)]_vars

\* C12 witness: the first window used up its 10 attempts and was logged, and
\* the client is now being invoked for the second window
C12_Witness ==
    /\ pc = "extract" /\ i = 2 /\ calls >= 1
    /\ 1 \in attempted /\ 1 \notin succeeded /\ Cardinality(LinesOf(1)) = 1

\* the fields of the request record the loop fills in for each window
WindowKeys == {"date_min", "date_max", "out_name"}

\* the names of the attributes the client sets during the call now made
SetNow ==
    {Sets(client, i, calls + 1)[n][1] : n \in 1..Len(Sets(client, i, calls + 1))}

\* C13 as claimed: once the request record is built, every field other than
\* date_min, date_max and out_name keeps its value in every step of the
\* run, so it is the same in every request passed to the client; the three
\* window fields change only when the loop moves to the next window, so
\* every attempt for one window passes the same date range and output name.
C13_Original ==
    [][(pc # "setup" /\ pc' # "setup") =>
          /\ \A k \in DOMAIN dict \ WindowKeys : k \in DOMAIN dict' /\ dict'[k] = dict[k]
          /\ pc = "extract" => \A k \in WindowKeys : dict'[k] = dict[k]
          /\ \E k \in WindowKeys : dict'[k] # dict[k] => (pc = "loop" /\ i' = i + 1)]_vars

\* C13 amended: the orchestrator itself changes only date_min, date_max and
\* out_name, and only when the loop moves to the next window, where it sets
\* them for that window; every other field is set once before the loop and
\* never written by the orchestrator again.  A field of the record changes
\* otherwise only when the client sets that attribute on the options object
\* it is given during a call, because the adapter writes into the record
\* itself; apart from such attributes every request of a run carries the
\* same other fields and every attempt for one window the same date range
\* and output name.
C13_Frame ==
    [][(pc # "setup" /\ pc' # "setup") =>
          IF calls' = calls + 1
          THEN \A k \in DOMAIN dict : k \notin SetNow => (k \in DOMAIN dict' /\ dict'[k] = dict[k])
          ELSE /\ DOMAIN dict' = DOMAIN dict
               /\ \A k \in DOMAIN dict \ WindowKeys : dict'[k] = dict[k]
               /\ dict' # dict =>
                     /\ pc = "loop" /\ i' = i + 1
                     /\ dict'.out_name = out_fn'
                     /\ dict'.date_min = DstrMin(variant, dt_list[i'])
                     /\ dict'.date_max = DstrMax(variant, dt_list[i'])]_vars

\* C13 witness: the client set the user name during its first call, and the
\* request of the second window, passed to the client again, still has it
C13_Witness ==
    /\ client = "sets_user" /\ pc = "extract" /\ i = 2 /\ calls >= 1
    /\ dict.user = "other" /\ dict.pwd \in Passwords

\* the run has ended: the script ran to its last line, or stopped with an
\* uncaught exception
Ended == pc \in {"done", "crashed"}

\* C14 as claimed, as the final result of a run: when the run has ended,
\* the total number of client invocations is at least N and at most 10*N.
C14_Original ==
    Ended => (ndt <= total /\ total <= 10 * ndt)

\* C14 amended: whatever way each client call ends, the run ends, by
\* running to its last line or by an uncaught error.  At all times the
\* client has been invoked at most 10 times for each window reached and
\* never again for a window after its first success, so the total is at
\* most 10*N.  A run that runs to its last line has invoked the client at
\* least once for every window, at least N times in all; a run stopped by
\* an uncaught error (file system, or the unrecognised first variable of
\* the forecast-physics script) has made at least one invocation for each
\* window it attempted and may have made fewer than N, also none.
C14_TotalBound ==
    /\ <>Ended
    /\ [](/\ calls <= 10
          /\ firstOk # 0 => calls = firstOk
          /\ Cardinality(attempted) <= total
          /\ total <= 10 * Cardinality(attempted)
          /\ total <= 10 * ndt)
    /\ [](pc = "done" => (Cardinality(attempted) = ndt /\ ndt <= total))

\* C14 witness: a run of two windows has ended after 20 client invocations
C14_Witness ==
    pc = "done" /\ ndt = 2 /\ total = 20

\* the log is written only between its opening and its closing, by the
\* header write and by the one write of each window, which adds one line
LogWrites ==
    [][logfile' # logfile =>
          \/ pc = "open" /\ f = "unopened" /\ f' = "open" /\ logfile'.content = << >>
          \/ pc = "header" /\ f = "open" /\ f' = "open" /\ i = 0
          \/ /\ pc = "log" /\ f = "open" /\ f' = "open" /\ pc' = "loop"
             /\ Len(LogLines') = Len(LogLines) + 1]_vars

\* C15 as claimed: log lifecycle.  The log is created at run start, before
\* the first window is processed: while windows are processed it exists and
\* is open.  When the run has ended, in whatever way it ended, a log that
\* was opened is closed.
C15_LogLifecycle ==
    /\ i >= 1 => (logfile.exists /\ f # "unopened")
    /\ (Ended /\ f # "unopened") => f = "closed"

\* the rest of the lifecycle, which the scripts keep: the log is created
\* (or emptied) before the first window, written only while open, by the
\* header write and by one append per window processed, closed when the
\* run runs to its last line and only then, and not written after that
LogLifecycleOnCompletion ==
    /\ [](i >= 1 => (logfile.exists /\ f # "unopened"))
    /\ [](f = "closed" <=> pc = "done")
    /\ [](pc = "done" => \A k \in 1..ndt : Cardinality(LinesOf(k)) = 1)
    /\ LogWrites
    /\ [][f # f' => (f = "unopened" /\ pc = "open") \/ (f = "open" /\ f' = "closed")]_vars

\* C16: the retry budget is per window.  In every window the attempt
\* counter is one more than the number of client calls made for that window,
\* so it starts at 1 whatever earlier windows used; a further attempt
\* follows exactly when fewer than 10 calls were made for this window and
\* none of them succeeded; and the result returned for the window, which is
\* the one logged, is 'success' exactly when one of the window's own calls
\* succeeded, whatever happened in earlier windows.
C16_PerWindowBudget ==
    /\ pc = "extract" =>
          /\ counter = calls + 1
          /\ got_file <=> firstOk # 0
          /\ LoopCondition <=> (calls < 10 /\ firstOk = 0)
          /\ calls >= 1 <=> i \in attempted
    /\ pc = "log" =>
          /\ result = "success" <=> firstOk # 0
          /\ result = "success" <=> i \in succeeded
          /\ result = "fail" <=> (firstOk = 0 /\ calls = 10)

\* C16 witness: the first window used all 10 attempts and failed; the second
\* window still had 10 attempts and succeeded with the last one
C16_Witness ==
    /\ pc = "log" /\ i = 2 /\ 1 \in attempted /\ 1 \notin succeeded
    /\ firstOk = 10 /\ calls = 10 /\ result = "success"

\* the forecast-physics script with a first variable it does not recognise
Unrecognised == variant = "forecast_physics_daily" /\ var_list[1] \notin Recognised

\* C17: in the forecast-physics script with an unrecognised first variable,
\* the product identifier stays the blank placeholder, no output name is
\* ever assigned, the client is never invoked and no window gets a log
\* line.  With N >= 1 the run never completes: once it reaches the loop it
\* stops with a NameError while processing the first window.  With N = 0
\* there is no NameError and the run, once in the loop, completes with zero
\* client invocations.  With a recognised first variable there is never a
\* NameError.
C17_UnrecognisedVariable ==
    /\ [](Unrecognised =>
            /\ pc # "setup" => dict.product_id = Blank
            /\ out_fn = Unbound
            /\ calls = 0 /\ attempted = {}
            /\ pc \notin {"overwrite_check", "extract", "log"}
            /\ \A k \in 1..Len(dt_list) : LinesOf(k) = {}
            /\ ndt >= 1 => pc # "done"
            /\ ndt = 0 => crash # "NameError"
            /\ crash = "NameError" => (pc = "crashed" /\ i = 1))
    /\ [](crash = "NameError" => Unrecognised)
    /\ (Unrecognised /\ ndt >= 1 /\ pc = "loop") ~> (pc = "crashed" /\ crash = "NameError")
    /\ (Unrecognised /\ ndt = 0 /\ pc = "loop") ~> (pc = "done" /\ attempted = {})

\* C17 witness: a forecast-physics run for ['bottomT'] over two days has
\* stopped with the NameError of the first window
C17_Witness ==
    /\ Unrecognised /\ ndt = 2 /\ pc = "crashed" /\ crash = "NameError" /\ i = 1
    /\ dict.product_id = Blank /\ attempted = {}

\* C18: an interruption raised during a client call (KeyboardInterrupt,
\* SystemExit) is absorbed by the catch-all clause: after it the run is
\* still in the window's retry loop with no uncaught exception, the attempt
\* counts as one failed attempt (the counter is one higher, no file was
\* got, no output file appeared), the next attempt follows unless this was
\* the 10th, and the run never ends by an interruption of a client call.
C18_InterruptAbsorbed ==
    /\ [][(pc = "extract" /\ calls' = calls + 1 /\ lastOutcome' = "interrupt") =>
              /\ pc' = "extract" /\ crash' = "none"
              /\ counter' = counter + 1
              /\ got_file' = FALSE /\ firstOk' = 0
              /\ files' = files /\ logfile' = logfile /\ i' = i
              /\ i \notin succeeded'
              /\ LoopCondition' <=> calls' < 10]_vars
    /\ [](crash # "interrupt")
    /\ []((pc = "log" /\ lastOutcome = "interrupt") => (result = "fail" /\ calls = 10))

\* C18 witness: the 10th call for the second window was interrupted, as
\* had been an earlier one, and the run went on to its last line
C18_Witness ==
    pc = "done" /\ ndt = 2 /\ lastOutcome = "interrupt" /\ attempted = {1, 2} /\ succeeded = {}

\* C19: the MotuOptions adapter shares state with the request template.
\* At every client call, an option the client reads has the template's
\* value when the template has that key and is None when it has not; every
\* attribute the client sets during the call is a key of the template with
\* that value when the call ends.  A key other than date_min, date_max and
\* out_name, once in the template, stays in it with its value through every
\* later step of the run, unless a later call sets it again, so later
\* attempts and later windows read it; date_min, date_max and out_name keep
\* a value the client set only until the loop moves to the next window,
\* where they are overwritten for that window.
C19_AdapterSharesState ==
    /\ [][calls' = calls + 1 =>
              /\ \A k \in ProbeKeys :
                    seen'[k] = IF k \in DOMAIN dict THEN dict[k] ELSE None
              /\ \A n \in 1..Len(Sets(client, i, calls + 1)) :
                    LET w == Sets(client, i, calls + 1)[n]
                    IN  w[1] \in DOMAIN dict' /\ dict'[w[1]] = w[2]]_vars
    /\ [][(pc # "setup" /\ pc' # "setup") =>
              /\ \A k \in DOMAIN dict \ WindowKeys :
                    /\ k \in DOMAIN dict'
                    /\ dict'[k] # dict[k] => (calls' = calls + 1 /\ k \in SetNow)
              /\ \A k \in WindowKeys :
                    dict'[k] # dict[k] =>
                        \/ calls' = calls + 1 /\ k \in SetNow
                        \/ pc = "loop" /\ i' = i + 1]_vars
    /\ []((client = "sets_proxy_server" /\ total >= 1) =>
            /\ dict.proxy_server = <<"proxy:8080">>
            /\ total >= 2 => seen["proxy_server"] = <<"proxy:8080">>)
    /\ []((client # "sets_proxy_server" /\ total >= 1) => seen["proxy_server"] = None)
    /\ []((client = "sets_date_min" /\ pc = "overwrite_check") =>
            dict.date_min = DstrMin(variant, dt_list[i]))

\* C19 witness: the client set proxy_server, which the template did not
\* have, during its first call for the first window, and has read it back
\* at a call for the second window
C19_Witness ==
    /\ client = "sets_proxy_server" /\ pc = "extract" /\ i = 2 /\ calls >= 1
    /\ seen["proxy_server"] = <<"proxy:8080">>
    /\ dict.proxy_server = <<"proxy:8080">>

====
